---------------------------- MODULE Spec2Model ----------------------------
(***************************************************************************)
(* Model of the pose-detection sandbox: the landmark-to-semantics          *)
(* functions of handDetection.js and utils.js, and the frame loop of       *)
(* main.js with the effect layer (renderer.js) and the 3-D scene           *)
(* (threeScene.js).                                                        *)
(*                                                                         *)
(* Numbers.  Every coordinate, length and depth is an integer count of     *)
(* 1/20000 units (0.00005), so 0.05 is 1000, 0.09 is 1800, 0.25 is 5000    *)
(* and 0.001 is 20.  A Euclidean distance is carried as its SQUARE (an     *)
(* exact integer); comparing it with a threshold compares the square with  *)
(* the threshold's square, which for non-negative lengths is the same      *)
(* comparison, strictness included.  Where the code needs the distance     *)
(* itself (estimateHandDepth) the square root is taken in fixed point,     *)
(* rounded down to the unit.                                               *)
(***************************************************************************)
EXTENDS Integers, Sequences, FiniteSets, TLC

VARIABLES
  pc,                  \* main.js: position of startExperiment / the frame loop
  currentExperimentId, \* main.js:37
  handLandmarker,      \* handDetection.js:7
  canvas,              \* the 2-D canvas' width and height (camera.js:16-17)
  lastDetections,      \* main.js:36
  debug,               \* the debug object of the last frame (main.js:205)
  isInitialized,       \* threeScene.js:29
  cylinder,            \* threeScene.js:28 (visible, position, rotation)
  lastBumpTime,        \* renderer.js:1
  now,                 \* performance.now()
  confetti,            \* what the last frame did with the effect
  args,                \* the arguments of the function under test
  ret                  \* the results of the functions applied to args

vars == <<pc, currentExperimentId, handLandmarker, canvas, lastDetections,
          debug, isInitialized, cylinder, lastBumpTime, now, confetti,
          args, ret>>

appVars == <<pc, currentExperimentId, handLandmarker, canvas, lastDetections,
             debug, isInitialized, cylinder, lastBumpTime, now, confetti>>

---------------------------------------------------------------------------
(* Values *)

\* JavaScript null / undefined for an object-valued variable.
Null == [null |-> TRUE]

\* A landmark {x, y, z}; PtNoZ is a landmark whose z is absent.
Pt(px, py, pz) == [x |-> px, y |-> py, z |-> pz]

PtNoZ(px, py) == [x |-> px, y |-> py]

\* (p.z || 0): an absent z, and a z of 0, read as 0.
zOr0(p) == IF "z" \in DOMAIN p THEN p.z ELSE 0

Abs(v) == IF v < 0 THEN -v ELSE v

Min(a, b) == IF a < b THEN a ELSE b

Max(a, b) == IF a > b THEN a ELSE b

RECURSIVE SqrtSearch(_, _, _)
SqrtSearch(n, lo, hi) ==
  IF lo >= hi THEN lo
  ELSE LET mid == (lo + hi + 1) \div 2
       IN  IF mid * mid <= n THEN SqrtSearch(n, mid, hi)
                             ELSE SqrtSearch(n, lo, mid - 1)

\* Math.sqrt in fixed point: the largest r with r*r <= n.
Sqrt(n) == SqrtSearch(n, 0, 46340)

---------------------------------------------------------------------------
(* utils.js: distances *)

\* dist(a, b) = Math.hypot(a.x - b.x, a.y - b.y), carried as its square.
dist(a, b) == (a.x - b.x) * (a.x - b.x) + (a.y - b.y) * (a.y - b.y)

\* dist3D(a, b), carried as its square.
dist3D(a, b) ==
  LET dx == a.x - b.x
      dy == a.y - b.y
      dz == zOr0(a) - zOr0(b)
  IN  dx * dx + dy * dy + dz * dz

\* d < c, d <= c, d > c for a squared distance d and a length c.
LenLT(d, c) == c > 0 /\ d < c * c

LenLE(d, c) == c >= 0 /\ d <= c * c

LenGT(d, c) == c < 0 \/ d > c * c

---------------------------------------------------------------------------
(* handDetection.js: the gesture classifier *)

FoldThreshold == 1000

FingerUpThreshold == 1800

ThumbExtendedThreshold == 1400

UpThreshold == 1000

CloseThreshold == 5000

FlatThreshold == 20

tipIds == {8, 12, 16, 20}

isFist_Unanimous(hand) ==
  Cardinality({id \in tipIds : LenLT(dist(hand[id], hand[id - 2]), FoldThreshold)}) >= 4

isFist(hand) ==
  LET folded == Cardinality({id \in tipIds :
                    LenLT(dist(hand[id], hand[id - 2]), FoldThreshold)})
  IN  folded >= 3

isPeace_Majority(hand) ==
  Cardinality({c \in {1, 2, 3, 4} :
      \/ c = 1 /\ LenGT(dist(hand[8], hand[5]), FingerUpThreshold)
      \/ c = 2 /\ LenGT(dist(hand[12], hand[9]), FingerUpThreshold)
      \/ c = 3 /\ LenLT(dist(hand[16], hand[14]), FoldThreshold)
      \/ c = 4 /\ LenLT(dist(hand[20], hand[18]), FoldThreshold)}) >= 3

isPeace(hand) ==
  LET finger(tip, mcp) == LenGT(dist(hand[tip], hand[mcp]), FingerUpThreshold)
      indexUp   == finger(8, 5)
      middleUp  == finger(12, 9)
      ringDown  == LenLT(dist(hand[16], hand[14]), FoldThreshold)
      pinkyDown == LenLT(dist(hand[20], hand[18]), FoldThreshold)
  IN  indexUp /\ middleUp /\ ringDown /\ pinkyDown

isThumbsUp_NonStrict(hand) ==
  /\ LenGT(dist(hand[4], hand[3]), ThumbExtendedThreshold)
  /\ dist(hand[4], hand[0]) >= dist(hand[1], hand[0])

isThumbsUp(hand) ==
  LET thumbTip == hand[4]
      thumbIP  == hand[3]
      thumbCMC == hand[1]
      wrist    == hand[0]
      thumbExtended    == LenGT(dist(thumbTip, thumbIP), ThumbExtendedThreshold)
      thumbFarFromPalm == dist(thumbTip, wrist) > dist(thumbCMC, wrist)
  IN  thumbExtended /\ thumbFarFromPalm

getFistOrientation_Ties(hand) ==
  LET dx == hand[9].x - hand[0].x
      dy == hand[9].y - hand[0].y
  IN  IF Abs(dx) >= Abs(dy) THEN (IF dx > 0 THEN "right" ELSE "left")
      ELSE IF dy < -UpThreshold THEN "up"
      ELSE "unknown"

getFistOrientation(hand) ==
  LET wrist         == hand[0]
      middleKnuckle == hand[9]
      dx == middleKnuckle.x - wrist.x
      dy == middleKnuckle.y - wrist.y
  IN  IF Abs(dx) > Abs(dy) THEN (IF dx > 0 THEN "right" ELSE "left")
      ELSE IF dy < -UpThreshold THEN "up"
      ELSE "unknown"

handsClose_Inclusive(handA, handB) ==
  LenLE(dist(handA[0], handB[0]), CloseThreshold)

handsClose(handA, handB) == LenLT(dist(handA[0], handB[0]), CloseThreshold)

---------------------------------------------------------------------------
(* Angles.  Math.atan2 and Math.asin are carried exactly: an angle is      *)
(* q quarter turns plus a residue in [0, pi/2) that is named by the        *)
(* square of its tangent, a reduced fraction <<p, r>>.  Two angles are     *)
(* equal exactly when their records are equal; the number 0 is ZeroAngle.  *)

RECURSIVE GCD(_, _)
GCD(a, b) == IF b = 0 THEN a ELSE GCD(b, a % b)

Reduced(p, r) == LET g == GCD(p, r) IN <<p \div g, r \div g>>

Angle(quarters, p, r) == [q |-> quarters, t |-> Reduced(p, r)]

ZeroAngle == Angle(0, 0, 1)

\* -a
Neg(a) ==
  IF a.t[1] = 0 THEN [q |-> -a.q, t |-> a.t]
  ELSE [q |-> -a.q - 1, t |-> <<a.t[2], a.t[1]>>]

\* a - Math.PI / 2
MinusHalfPi(a) == [a EXCEPT !.q = @ - 1]

\* Math.atan2(y, x) for y >= 0
Atan2Upper(y, x) ==
  IF x > 0 THEN Angle(0, y * y, x * x)
  ELSE IF y = 0 /\ x = 0 THEN ZeroAngle
  ELSE IF x = 0 THEN Angle(1, 0, 1)
  ELSE IF y = 0 THEN Angle(2, 0, 1)
  ELSE Angle(1, x * x, y * y)

\* Math.atan2(y, x); scaling y and x by one positive length keeps the angle.
Atan2(y, x) == IF y < 0 THEN Neg(Atan2Upper(-y, x)) ELSE Atan2Upper(y, x)

\* Math.asin(y / len) where len2 = len * len >= y * y and len > 0
Asin(y, len2) ==
  LET rest == len2 - y * y
      up   == IF rest = 0 THEN Angle(1, 0, 1) ELSE Angle(0, y * y, rest)
  IN  IF y < 0 THEN Neg(up) ELSE up

---------------------------------------------------------------------------
(* handDetection.js: the 3-D pose estimator *)

getFistRotation_NoGuard(hand) ==
  LET forwardX == hand[9].x - hand[0].x
      forwardY == hand[9].y - hand[0].y
      forwardZ == zOr0(hand[9]) - zOr0(hand[0])
      rightX   == hand[4].x - hand[0].x
      rightY   == hand[4].y - hand[0].y
      forwardLength == forwardX * forwardX + forwardY * forwardY + forwardZ * forwardZ
      rightLength   == rightX * rightX + rightY * rightY
  IN  [x |-> Neg(Asin(forwardY, forwardLength)),
       y |-> Atan2(forwardX, forwardZ),
       z |-> IF LenGT(rightLength, FlatThreshold)
             THEN MinusHalfPi(Atan2(rightY, rightX)) ELSE ZeroAngle]

\* the roll taken from a thumb vector of exactly 0.001 as well
getFistRotation_RollInclusive(hand) ==
  LET forwardX == hand[9].x - hand[0].x
      forwardY == hand[9].y - hand[0].y
      forwardZ == zOr0(hand[9]) - zOr0(hand[0])
      rightX   == hand[4].x - hand[0].x
      rightY   == hand[4].y - hand[0].y
      forwardLength == forwardX * forwardX + forwardY * forwardY + forwardZ * forwardZ
      rightLength   == rightX * rightX + rightY * rightY
  IN  IF LenLT(forwardLength, FlatThreshold)
      THEN [x |-> ZeroAngle, y |-> ZeroAngle, z |-> ZeroAngle]
      ELSE [x |-> Neg(Asin(forwardY, forwardLength)),
            y |-> Atan2(forwardX, forwardZ),
            z |-> IF LenLT(rightLength, FlatThreshold)
                  THEN ZeroAngle ELSE MinusHalfPi(Atan2(rightY, rightX))]

getFistRotation(hand) ==
  LET wrist         == hand[0]
      middleKnuckle == hand[9]
      thumbTip      == hand[4]
      forwardX == middleKnuckle.x - wrist.x
      forwardY == middleKnuckle.y - wrist.y
      forwardZ == zOr0(middleKnuckle) - zOr0(wrist)
      rightX   == thumbTip.x - wrist.x
      rightY   == thumbTip.y - wrist.y
      \* the two lengths, carried as their squares
      forwardLength == forwardX * forwardX + forwardY * forwardY + forwardZ * forwardZ
      rightLength   == rightX * rightX + rightY * rightY
  IN  IF LenLT(forwardLength, FlatThreshold)
      THEN [x |-> ZeroAngle, y |-> ZeroAngle, z |-> ZeroAngle]
      ELSE LET yaw   == Atan2(forwardX, forwardZ)
               pitch == Neg(Asin(forwardY, forwardLength))
               roll  == IF LenGT(rightLength, FlatThreshold)
                        THEN MinusHalfPi(Atan2(rightY, rightX))
                        ELSE ZeroAngle
           IN  [x |-> pitch, y |-> yaw, z |-> roll]

---------------------------------------------------------------------------
(* utils.js: depth heuristic, projection, nearness *)

BaseDepth == -50000

DepthRange == 40000

SizeMin == 1000

SizeMax == 4000

SizeSpan == 3000

estimateHandDepth_NoClamp(hand) ==
  BaseDepth - ((Sqrt(dist(hand[0], hand[9])) - SizeMin) * DepthRange) \div SizeSpan

estimateHandDepth(hand) ==
  LET wrist          == hand[0]
      middleKnuckle  == hand[9]
      handSize       == Sqrt(dist(wrist, middleKnuckle))
      normalizedSize == Max(SizeMin, Min(SizeMax, handSize))
      depth == BaseDepth - ((normalizedSize - SizeMin) * DepthRange) \div SizeSpan
  IN  depth

\* An optional argument: <<>> when it is not supplied, <<v>> when it is.
NotSupplied == <<>>

Supplied(v) == <<v>>

\* 2 * Math.tan(fovRad / 2) * distance for fov = 75 and distance = 5
WorldHeight == 153465

DefaultDepth == -50000

HalfFrame == 10000

\* 1.0 in units
Unit == 2 * HalfFrame

\* a * b / c rounded toward zero (a, b any sign, c > 0)
MulDiv(a, b, c) ==
  LET n == a * b
  IN  IF n < 0 THEN -((-n) \div c) ELSE n \div c

\* depth ? depth : -2.5
landmarkTo3D_Falsy(landmark, canvasWidth, canvasHeight, depth) ==
  [x |-> MulDiv(MulDiv(landmark.x - HalfFrame, WorldHeight, Unit),
                canvasWidth, canvasHeight),
   y |-> MulDiv(HalfFrame - landmark.y, WorldHeight, Unit),
   z |-> IF depth # NotSupplied /\ depth[1] # 0 THEN depth[1] ELSE DefaultDepth]

landmarkTo3D(landmark, canvasWidth, canvasHeight, depth) ==
  LET \* (landmark.x - 0.5) * worldHeight * aspect, aspect = width / height
      x == MulDiv(MulDiv(landmark.x - HalfFrame, WorldHeight, Unit),
                  canvasWidth, canvasHeight)
      y == MulDiv(HalfFrame - landmark.y, WorldHeight, Unit)
      z == IF depth # NotSupplied THEN depth[1] ELSE DefaultDepth
  IN  [x |-> x, y |-> y, z |-> z]

handTo3D(hand, canvasWidth, canvasHeight) ==
  LET wrist == hand[0]
      depth == estimateHandDepth(hand)
  IN  landmarkTo3D(wrist, canvasWidth, canvasHeight, Supplied(depth))

GrabThresholdDefault == 16000

isHandNearCylinder_Strict(handPos3D, cylinderPos3D, grabThreshold) ==
  IF handPos3D = Null \/ cylinderPos3D = Null THEN FALSE
  ELSE LenLT(dist3D(handPos3D, cylinderPos3D),
             IF grabThreshold = NotSupplied THEN GrabThresholdDefault
             ELSE grabThreshold[1])

isHandNearCylinder(handPos3D, cylinderPos3D, grabThreshold) ==
  IF handPos3D = Null \/ cylinderPos3D = Null THEN FALSE
  ELSE LET threshold == IF grabThreshold = NotSupplied
                        THEN GrabThresholdDefault ELSE grabThreshold[1]
           distance  == dist3D(handPos3D, cylinderPos3D)
       IN  LenLE(distance, threshold)

---------------------------------------------------------------------------
(* threeScene.js: the cylinder *)

\* initThreeScene line 83: cylinder.position.set(0, 0, -2.5); a new mesh is
\* visible and unrotated.
NewCylinder ==
  [visible  |-> TRUE,
   position |-> [x |-> 0, y |-> 0, z |-> DefaultDepth],
   rotation |-> [x |-> ZeroAngle, y |-> ZeroAngle, z |-> ZeroAngle]]

\* initThreeScene: a second call returns at its first line
initThreeScene(inited, cyl) ==
  IF inited THEN [isInitialized |-> inited, cylinder |-> cyl]
  ELSE [isInitialized |-> TRUE, cylinder |-> NewCylinder]

setCylinderVisibility(cyl, visible) ==
  IF cyl = Null THEN cyl ELSE [cyl EXCEPT !.visible = visible]

setCylinderPosition(cyl, x, y, z) ==
  IF cyl = Null THEN cyl ELSE [cyl EXCEPT !.position = [x |-> x, y |-> y, z |-> z]]

setCylinderRotation(cyl, x, y, z) ==
  IF cyl = Null THEN cyl ELSE [cyl EXCEPT !.rotation = [x |-> x, y |-> y, z |-> z]]

---------------------------------------------------------------------------
(* renderer.js: the confetti debounce *)

CooldownMs == 1000

\* triggerConfetti gets past its early return at clock reading t
\* a second call exactly one cooldown later is still held back
confettiFires_Late(t, last) == ~(t - last <= CooldownMs)

confettiFires(t, last) == ~(t - last < CooldownMs)

---------------------------------------------------------------------------
(* main.js: the per-frame debug generators and the 3-D handler *)

\* Number.toFixed at a step of `step` units, ties away from zero (v >= 0)
toFixed(v, step) == ((v + step \div 2) \div step) * step

facingEachOther_OneWay(orientA, orientB) ==
  orientA = "left" /\ orientB = "right"

facingEachOther(orientA, orientB) ==
  \/ (orientA = "left" /\ orientB = "right")
  \/ (orientA = "right" /\ orientB = "left")

fistBumpTriggers_Distant(dets) ==
  /\ Len(dets) = 2
  /\ isFist(dets[1]) /\ isFist(dets[2])
  /\ facingEachOther(getFistOrientation(dets[1]), getFistOrientation(dets[2]))

\* the condition of main.js line 96 under which triggerConfetti is called
fistBumpTriggers(dets) ==
  /\ Len(dets) = 2
  /\ isFist(dets[1]) /\ isFist(dets[2])
  /\ facingEachOther(getFistOrientation(dets[1]), getFistOrientation(dets[2]))
  /\ handsClose(dets[1], dets[2])

\* The debug object; a field still holding its "-" placeholder is left out.
getFistBumpDebug(dets) ==
  IF Len(dets) = 2
  THEN LET A == dets[1]
           B == dets[2]
           orientA == getFistOrientation(A)
           orientB == getFistOrientation(B)
       IN  [hands        |-> Len(dets),
            distance     |-> toFixed(Sqrt(dist(A[0], B[0])), 20),
            handA_fist   |-> isFist(A),
            handB_fist   |-> isFist(B),
            handA_orient |-> orientA,
            handB_orient |-> orientB,
            facing       |-> facingEachOther(orientA, orientB),
            close        |-> handsClose(A, B),
            handA_peace  |-> isPeace(A),
            handB_peace  |-> isPeace(B),
            handA_thumb  |-> isThumbsUp(A),
            handB_thumb  |-> isThumbsUp(B)]
  ELSE [hands |-> Len(dets)]

\* The position and rotation fields hold the values, not their formatted text.
tableTennisHandDebug(hand, cnv) ==
  LET fist == isFist(hand)
      base == [fist |-> fist, pos3D |-> handTo3D(hand, cnv.width, cnv.height)]
  IN  IF fist THEN base @@ [rotation |-> getFistRotation(hand)] ELSE base

getTableTennisDebug(dets, cnv) ==
  IF Len(dets) > 1
  THEN [hands |-> Len(dets),
        handA |-> tableTennisHandDebug(dets[1], cnv),
        handB |-> tableTennisHandDebug(dets[2], cnv)]
  ELSE IF Len(dets) > 0
  THEN [hands |-> Len(dets), handA |-> tableTennisHandDebug(dets[1], cnv)]
  ELSE [hands |-> Len(dets)]

\* the cylinder following whichever hand is a fist
handleTableTennis3D_EitherHand(cyl, dets, cnv) ==
  IF Len(dets) = 0 THEN setCylinderVisibility(cyl, FALSE)
  ELSE LET hand     == IF Len(dets) > 1 /\ ~isFist(dets[1]) THEN dets[2] ELSE dets[1]
           hand3D   == handTo3D(hand, cnv.width, cnv.height)
       IN  IF isFist(hand)
           THEN LET shown    == setCylinderVisibility(cyl, TRUE)
                    moved    == setCylinderPosition(shown, hand3D.x, hand3D.y, hand3D.z)
                    rotation == getFistRotation(hand)
                IN  setCylinderRotation(moved, rotation.x, rotation.y, rotation.z)
           ELSE setCylinderVisibility(cyl, FALSE)

\* the rotation copied from hand A whether or not it is a fist
handleTableTennis3D_AlwaysRotate(cyl, dets, cnv) ==
  IF Len(dets) = 0 THEN setCylinderVisibility(cyl, FALSE)
  ELSE LET handA    == dets[1]
           handA3D  == handTo3D(handA, cnv.width, cnv.height)
           rotation == getFistRotation(handA)
           turned   == setCylinderRotation(cyl, rotation.x, rotation.y, rotation.z)
       IN  IF isFist(handA)
           THEN setCylinderPosition(setCylinderVisibility(turned, TRUE),
                                    handA3D.x, handA3D.y, handA3D.z)
           ELSE setCylinderVisibility(turned, FALSE)

handleTableTennis3D(cyl, dets, cnv) ==
  IF Len(dets) = 0 THEN setCylinderVisibility(cyl, FALSE)
  ELSE LET handA    == dets[1]
           handA3D  == handTo3D(handA, cnv.width, cnv.height)
       IN  IF isFist(handA)
           THEN LET shown    == setCylinderVisibility(cyl, TRUE)
                    moved    == setCylinderPosition(shown, handA3D.x, handA3D.y, handA3D.z)
                    rotation == getFistRotation(handA)
                IN  setCylinderRotation(moved, rotation.x, rotation.y, rotation.z)
           ELSE setCylinderVisibility(cyl, FALSE)

---------------------------------------------------------------------------
(* Inputs: the hands a frame may hold *)

Rest == Pt(10000, 10000, 0)

\* A 21-landmark hand: the landmarks of `over`, every other one at Rest.
MkHand(over) == [i \in 0..20 |-> IF i \in DOMAIN over THEN over[i] ELSE Rest]

Shift(p, o) == [p EXCEPT !.x = @ + o[1], !.y = @ + o[2]]

\* tip-to-(tip - 2) offset of all four fingers: folded, or stretched
Folded == <<200, 0>>

Stretched == <<0, 4000>>

AppHand(w, f, c) ==
  MkHand(0 :> w @@ 9 :> Shift(w, f) @@ 4 :> Shift(w, <<1500, -1500>>)
         @@ 8 :> Shift(Rest, c) @@ 12 :> Shift(Rest, c)
         @@ 16 :> Shift(Rest, c) @@ 20 :> Shift(Rest, c))

\* fists pointing right, left (near and far), up; open hands pointing left
\* and down
AppHands ==
  {AppHand(Pt(8000, 10000, 0),  <<2000, 0>>,  Folded),
   AppHand(Pt(12000, 10000, 0), <<-2000, 0>>, Folded),
   AppHand(Pt(14000, 10000, 0), <<-2000, 0>>, Folded),
   AppHand(Pt(12000, 10000, 0), <<-2000, 0>>, Stretched),
   AppHand(Pt(12000, 10000, 0), <<0, -2000>>, Folded),
   AppHand(Pt(14000, 10000, 0), <<0, 2000>>,  Stretched)}

\* numHands: 2 (handDetection.js line 24)
NumHands == 2

\* results.landmarks: at most NumHands hands
Detections ==
  {d \in {<<>>} \cup {<<h>> : h \in AppHands}
                \cup {<<a, b>> : a \in AppHands, b \in AppHands} :
     Len(d) <= NumHands}

VideoSize == [width |-> 640, height |-> 480]

WindowSizes == {[width |-> 1280, height |-> 720], [width |-> 800, height |-> 800]}

Experiments == {"fist-bump", "table-tennis"}

MaxTime == 2500

StartTimes == {500, 1000}

FrameGaps == {500, 1000}

---------------------------------------------------------------------------
(* main.js: start-up and the frame loop *)

NoConfetti == [requested |-> FALSE, fired |-> FALSE]

AppInit ==
  /\ pc = "select"
  /\ currentExperimentId = "null"
  /\ handLandmarker = "null"
  /\ canvas = Null
  /\ lastDetections = Null
  /\ debug = Null
  /\ isInitialized = FALSE
  /\ cylinder = Null
  /\ lastBumpTime = 0
  /\ now = 0
  /\ confetti = NoConfetti

\* renderLoop at clock reading t, seeing dets, with the scene as given
renderLoop(cyl, cnv, inited, dets, t) ==
  LET requested == currentExperimentId' = "fist-bump" /\ fistBumpTriggers(dets)
      fired     == requested /\ confettiFires(t, lastBumpTime)
  IN  /\ now' = t
      /\ lastDetections' = dets
      /\ cylinder' = IF currentExperimentId' = "table-tennis" /\ inited
                     THEN handleTableTennis3D(cyl, dets, cnv) ELSE cyl
      /\ debug' = IF currentExperimentId' = "fist-bump"
                  THEN getFistBumpDebug(dets) ELSE getTableTennisDebug(dets, cnv)
      /\ lastBumpTime' = IF fired THEN t ELSE lastBumpTime
      /\ confetti' =
           IF fired
           THEN [requested |-> TRUE, fired |-> TRUE,
                 origin |-> [x |-> (dets[1][0].x + dets[2][0].x) \div 2,
                             y |-> (dets[1][0].y + dets[2][0].y) \div 2]]
           ELSE [requested |-> requested, fired |-> FALSE]

\* a click on an experiment button: startExperiment up to its first await
ClickExperiment ==
  /\ pc = "select"
  /\ \E id \in Experiments : currentExperimentId' = id
  /\ pc' = "initHandLandmarker"
  /\ UNCHANGED <<handLandmarker, canvas, lastDetections, debug, isInitialized,
                 cylinder, lastBumpTime, now, confetti, args, ret>>

\* startWebcam asked for the camera without waiting for the landmarker
InitHandLandmarker_NotAwaited ==
  /\ pc = "initHandLandmarker"
  /\ pc' = "getUserMedia"
  /\ UNCHANGED <<currentExperimentId, handLandmarker, canvas, lastDetections, debug,
                 isInitialized, cylinder, lastBumpTime, now, confetti, args, ret>>

\* initHandLandmarker resolves; startWebcam asks for the camera
InitHandLandmarker ==
  /\ pc = "initHandLandmarker"
  /\ handLandmarker' = "ready"
  /\ pc' = "getUserMedia"
  /\ UNCHANGED <<currentExperimentId, canvas, lastDetections, debug, isInitialized,
                 cylinder, lastBumpTime, now, confetti, args, ret>>

\* getUserMedia resolves; the loadeddata listener is registered
StartWebcam ==
  /\ pc = "getUserMedia"
  /\ pc' = "loadeddata"
  /\ UNCHANGED <<currentExperimentId, handLandmarker, canvas, lastDetections, debug,
                 isInitialized, cylinder, lastBumpTime, now, confetti, args, ret>>

\* the loadeddata listener: canvas size, onReady (scene set-up for table
\* tennis; updateSize ends in handleResize, whose free name `canvas` is the
\* page's element of that id), then the first renderLoop
LoadedData ==
  /\ pc = "loadeddata"
  /\ \E dets \in Detections, t \in StartTimes, win \in WindowSizes :
       LET tennis == currentExperimentId = "table-tennis"
           scene  == IF tennis THEN initThreeScene(isInitialized, cylinder)
                     ELSE [isInitialized |-> isInitialized, cylinder |-> cylinder]
           cnv    == IF tennis THEN win ELSE VideoSize
       IN  /\ isInitialized' = scene.isInitialized
           /\ canvas' = cnv
           /\ currentExperimentId' = currentExperimentId
           /\ renderLoop(scene.cylinder, cnv, isInitialized', dets, t)
  /\ pc' = "running"
  /\ UNCHANGED <<handLandmarker, args, ret>>

\* requestAnimationFrame(renderLoop)
AnimationFrame ==
  /\ pc = "running"
  /\ \E dets \in Detections, gap \in FrameGaps :
       /\ now + gap <= MaxTime
       /\ currentExperimentId' = currentExperimentId
       /\ renderLoop(cylinder, canvas, isInitialized, dets, now + gap)
  /\ UNCHANGED <<pc, handLandmarker, canvas, isInitialized, args, ret>>

\* the window's resize listener (threeScene.js handleResize)
WindowResize ==
  /\ isInitialized
  /\ \E win \in WindowSizes : canvas' = win
  /\ UNCHANGED <<pc, currentExperimentId, handLandmarker, lastDetections, debug,
                 isInitialized, cylinder, lastBumpTime, now, confetti, args, ret>>

Init == AppInit /\ args = Null /\ ret = <<>>

Next ==
  \/ ClickExperiment
  \/ InitHandLandmarker
  \/ StartWebcam
  \/ LoadedData
  \/ AnimationFrame
  \/ WindowResize

Spec == Init /\ [][Next]_vars

---------------------------------------------------------------------------
(* The functions on their own: args is drawn from the families below and   *)
(* ret collects, under the function's name, what each function returns.    *)

\* tip-to-(tip - 2) offsets: 0.01, just under 0.05, exactly 0.05, 0.2
FoldOffs == {<<200, 0>>, <<999, 0>>, <<600, 800>>, <<4000, 0>>}

\* tip-to-MCP offsets: 0.01, exactly 0.09, just over 0.09, 0.15
UpOffs == {<<200, 0>>, <<1080, 1440>>, <<1801, 0>>, <<3000, 0>>}

Tip(px) == Pt(px, 8000, -3000)

FingerHand(i2, i3, m2, m3, r2, p2) ==
  MkHand(8 :> Tip(4000) @@ 6 :> Shift(Pt(4000, 8000, 0), i2)
                        @@ 5 :> Shift(Pt(4000, 8000, 0), i3)
         @@ 12 :> Tip(8000) @@ 10 :> Shift(Pt(8000, 8000, 0), m2)
                            @@ 9 :> Shift(Pt(8000, 8000, 0), m3)
         @@ 16 :> Tip(12000) @@ 14 :> Shift(Pt(12000, 8000, 0), r2)
         @@ 20 :> Tip(15000) @@ 18 :> Shift(Pt(15000, 8000, 0), p2))

FingerHands ==
  {FingerHand(i2, i3, m2, m3, r2, p2) :
     i2 \in FoldOffs, i3 \in UpOffs, m2 \in FoldOffs, m3 \in UpOffs,
     r2 \in FoldOffs, p2 \in FoldOffs}

\* landmark 1 and landmark 4 from the wrist; landmark 3 from landmark 4
ThumbBase == {<<2000, 0>>, <<1200, 1600>>, <<0, 0>>}

ThumbTip == {<<2000, 0>>, <<0, -2000>>, <<2001, 0>>, <<1999, 0>>}

ThumbIP == {<<1400, 0>>, <<1401, 0>>, <<840, 1120>>, <<100, 0>>}

ThumbHands ==
  {MkHand(0 :> Pt(10000, 10000, 500) @@ 1 :> Shift(Pt(10000, 10000, 0), c)
          @@ 4 :> Shift(Pt(10000, 10000, -2000), t)
          @@ 3 :> Shift(Shift(Pt(10000, 10000, 0), t), i)) :
     c \in ThumbBase, t \in ThumbTip, i \in ThumbIP}

\* landmark 9 from the wrist
PoseForward ==
  {<<2000, 0>>, <<-2000, 0>>, <<0, -2000>>, <<200, 200>>, <<0, 2000>>,
   <<1500, -1500>>, <<-1500, 1500>>, <<0, -1000>>, <<0, -1001>>,
   <<-1001, 1000>>, <<500, -1200>>, <<0, 0>>, <<10, 10>>, <<12, 16>>,
   <<19, 0>>, <<12, 0>>}

\* z of the wrist and of landmark 9, each present or absent
PoseDepths ==
  {<<NotSupplied, NotSupplied>>, <<Supplied(0), Supplied(15)>>,
   <<Supplied(16), NotSupplied>>, <<Supplied(700), Supplied(700)>>}

\* landmark 4 from the wrist
PoseThumb ==
  {<<0, 0>>, <<12, 16>>, <<20, 0>>, <<21, 0>>, <<1500, -1500>>, <<0, 3000>>,
   <<-2000, 0>>}

Landmark(px, py, pz) == IF pz = NotSupplied THEN PtNoZ(px, py) ELSE Pt(px, py, pz[1])

PoseHands ==
  {MkHand(0 :> Landmark(10000, 10000, z[1])
          @@ 9 :> Landmark(10000 + f[1], 10000 + f[2], z[2])
          @@ 4 :> Pt(10000 + t[1], 10000 + t[2], 900)) :
     f \in PoseForward, z \in PoseDepths, t \in PoseThumb}

\* wrist B from wrist A: 0.25, 0.24, 0.25 on a slant, just under, just over
PairWrists ==
  {<<5000, 0>>, <<4800, 0>>, <<3000, 4000>>, <<4999, 0>>, <<5001, 0>>,
   <<0, 0>>, <<-3000, -4000>>, <<0, -4999>>}

\* landmark 9 from the wrist: sizes 0.025 to 0.25
PairSizes ==
  {<<500, 0>>, <<600, 800>>, <<2000, 0>>, <<1800, 2400>>, <<4000, 0>>,
   <<3000, 4000>>, <<0, 2001>>}

PairHands ==
  {<<MkHand(0 :> Pt(6000, 10000, 0) @@ 9 :> Shift(Pt(6000, 10000, 0), sa)),
     MkHand(0 :> Shift(Pt(6000, 10000, 8000), w)
            @@ 9 :> Shift(Shift(Pt(6000, 10000, 0), w), sb))>> :
     w \in PairWrists, sa \in PairSizes, sb \in PairSizes}

NearHandPos ==
  {Null, [x |-> 0, y |-> 0, z |-> 0], [x |-> 0, y |-> 0],
   [x |-> 1000, y |-> -2000, z |-> 3000]}

NearCylinderPos ==
  {Null, [x |-> 16000, y |-> 0, z |-> 0], [x |-> 9600, y |-> 12800],
   [x |-> 9600, y |-> 0, z |-> 12800], [x |-> 16001, y |-> 0, z |-> 0],
   [x |-> 0, y |-> 0, z |-> 15999], [x |-> 10000, y |-> 0, z |-> 0],
   [x |-> 6000, y |-> 8000, z |-> 0], [x |-> 1000, y |-> -2000, z |-> 3000]}

NearThresholds ==
  {NotSupplied, Supplied(16000), Supplied(10000), Supplied(0), Supplied(-1)}

\* landmarkTo3D: the frame centre, corners and points between, with and
\* without z
ProjectLandmarks ==
  {Pt(10000, 10000, 0), PtNoZ(10000, 10000), Pt(10000, 10000, -4000),
   Pt(0, 0, 0), Pt(20000, 20000, 300), Pt(15000, 5000, 0), PtNoZ(2500, 12000)}

ProjectCanvases ==
  {[width |-> 640, height |-> 480], [width |-> 480, height |-> 640],
   [width |-> 800, height |-> 800], [width |-> 1280, height |-> 720],
   [width |-> 1, height |-> 3]}

ProjectDepths ==
  {NotSupplied, Supplied(0), Supplied(-50000), Supplied(-70000), Supplied(12345)}

FnArgs ==
  {[kind |-> "fingers", hands |-> <<h>>] : h \in FingerHands}
  \cup {[kind |-> "thumb", hands |-> <<h>>] : h \in ThumbHands}
  \cup {[kind |-> "pose", hands |-> <<h>>] : h \in PoseHands}
  \cup {[kind |-> "pair", hands |-> hs] : hs \in PairHands}
  \cup {[kind |-> "project", landmark |-> l, canvas |-> c, depth |-> d] :
          l \in ProjectLandmarks, c \in ProjectCanvases, d \in ProjectDepths}
  \cup {[kind |-> "near", handPos3D |-> a, cylinderPos3D |-> b, grabThreshold |-> c] :
          a \in NearHandPos, b \in NearCylinderPos, c \in NearThresholds}

Returned(fn) == fn \in DOMAIN ret

Apply(kind, fn, value) ==
  /\ args.kind = kind
  /\ ~Returned(fn)
  /\ ret' = (fn :> value) @@ ret
  /\ UNCHANGED <<args, appVars>>

ApplyIsFist == Apply("fingers", "isFist", isFist(args.hands[1]))

ApplyIsPeace == Apply("fingers", "isPeace", isPeace(args.hands[1]))

ApplyIsThumbsUp == Apply("thumb", "isThumbsUp", isThumbsUp(args.hands[1]))

ApplyGetFistOrientation ==
  Apply("pose", "getFistOrientation", getFistOrientation(args.hands[1]))

ApplyGetFistRotation ==
  Apply("pose", "getFistRotation", getFistRotation(args.hands[1]))

ApplyHandsClose ==
  Apply("pair", "handsClose", handsClose(args.hands[1], args.hands[2]))

ApplyEstimateHandDepth ==
  Apply("pair", "estimateHandDepth",
        <<estimateHandDepth(args.hands[1]), estimateHandDepth(args.hands[2])>>)

ApplyIsHandNearCylinder ==
  Apply("near", "isHandNearCylinder",
        isHandNearCylinder(args.handPos3D, args.cylinderPos3D, args.grabThreshold))

ApplyLandmarkTo3D ==
  Apply("project", "landmarkTo3D",
        landmarkTo3D(args.landmark, args.canvas.width, args.canvas.height, args.depth))

FnInit == AppInit /\ args \in FnArgs /\ ret = <<>>

FnNext ==
  \/ ApplyIsFist
  \/ ApplyIsPeace
  \/ ApplyIsThumbsUp
  \/ ApplyGetFistOrientation
  \/ ApplyGetFistRotation
  \/ ApplyHandsClose
  \/ ApplyEstimateHandDepth
  \/ ApplyIsHandNearCylinder
  \/ ApplyLandmarkTo3D

SpecFn == FnInit /\ [][FnNext]_vars

---------------------------------------------------------------------------
(* Properties.  The distances below are written out from the landmarks'    *)
(* coordinates, not through dist: Gap2(h, i, j) is the squared 2-D         *)
(* distance between landmarks i and j of hand h, and a threshold enters    *)
(* squared (0.05 is 1000 units, so 1000000).                               *)

Gap2(h, i, j) ==
  (h[i].x - h[j].x) * (h[i].x - h[j].x) + (h[i].y - h[j].y) * (h[i].y - h[j].y)

Hand1 == args.hands[1]

Hand2 == args.hands[2]

FoldedTips(h) == {t \in {8, 12, 16, 20} : Gap2(h, t, t - 2) < 1000000}

\* C1: isFist(hand) is true exactly when at least 3 of the fingertips 8, 12,
\* 16, 20 lie strictly closer than 0.05 (2-D) to landmark tip - 2; a tip at
\* exactly 0.05 does not count as folded.
C1_FistIffThreeFolded ==
  Returned("isFist") =>
    /\ ret["isFist"] = (Cardinality(FoldedTips(Hand1)) >= 3)
    /\ (\A t \in {8, 12, 16, 20} : Gap2(Hand1, t, t - 2) = 40000) => ret["isFist"]
    /\ (\A t \in {8, 12, 16, 20} : Gap2(Hand1, t, t - 2) = 16000000) => ~ret["isFist"]
    /\ (\A t \in {8, 12, 16, 20} : Gap2(Hand1, t, t - 2) = 1000000) => ~ret["isFist"]

\* exactly three tips folded, the fourth at exactly 0.05: still a fist
C1_Witness ==
  /\ Returned("isFist") /\ ret["isFist"]
  /\ Cardinality(FoldedTips(Hand1)) = 3
  /\ \E t \in {8, 12, 16, 20} : Gap2(Hand1, t, t - 2) = 1000000

\* C2: isPeace(hand) and isFist(hand) are never both true.
C2_PeaceExcludesFist ==
  (Returned("isFist") /\ Returned("isPeace")) => ~(ret["isFist"] /\ ret["isPeace"])

PeaceConditions(h) ==
  /\ Gap2(h, 8, 5) > 3240000
  /\ Gap2(h, 12, 9) > 3240000
  /\ Gap2(h, 16, 14) < 1000000
  /\ Gap2(h, 20, 18) < 1000000

\* C3: isPeace(hand) is true exactly when dist(8,5) > 0.09, dist(12,9) >
\* 0.09, dist(16,14) < 0.05 and dist(20,18) < 0.05 all hold; one failing
\* condition (the ring at 0.2, say) makes it false.
C3_PeaceIffAllFour ==
  Returned("isPeace") =>
    /\ ret["isPeace"] = PeaceConditions(Hand1)
    /\ Gap2(Hand1, 16, 14) = 16000000 => ~ret["isPeace"]

\* three of the four conditions hold, the ring is at 0.2: no peace sign
C3_Witness ==
  /\ Returned("isPeace") /\ ~ret["isPeace"]
  /\ Gap2(Hand1, 8, 5) > 3240000
  /\ Gap2(Hand1, 12, 9) > 3240000
  /\ Gap2(Hand1, 16, 14) = 16000000
  /\ Gap2(Hand1, 20, 18) < 1000000

\* C4: isThumbsUp(hand) is true exactly when dist(4,3) > 0.07 and
\* dist(4,0) > dist(1,0), both strict.
C4_ThumbsUpIffBothStrict ==
  Returned("isThumbsUp") =>
    /\ ret["isThumbsUp"] = (/\ Gap2(Hand1, 4, 3) > 1960000
                            /\ Gap2(Hand1, 4, 0) > Gap2(Hand1, 1, 0))
    /\ Gap2(Hand1, 4, 0) = Gap2(Hand1, 1, 0) => ~ret["isThumbsUp"]
    /\ Gap2(Hand1, 4, 3) = 1960000 => ~ret["isThumbsUp"]

\* the thumb is extended and its tip is exactly as far from the wrist as
\* landmark 1, in another direction: no thumbs-up
C4_Witness ==
  /\ Returned("isThumbsUp") /\ ~ret["isThumbsUp"]
  /\ Gap2(Hand1, 4, 3) > 1960000
  /\ Gap2(Hand1, 4, 0) = Gap2(Hand1, 1, 0)
  /\ Hand1[4].x # Hand1[1].x

ForwardX(h) == h[9].x - h[0].x

ForwardY(h) == h[9].y - h[0].y

Wider(h) ==
  IF ForwardX(h) < 0
  THEN (IF ForwardY(h) < 0 THEN -ForwardX(h) > -ForwardY(h) ELSE -ForwardX(h) > ForwardY(h))
  ELSE (IF ForwardY(h) < 0 THEN ForwardX(h) > -ForwardY(h) ELSE ForwardX(h) > ForwardY(h))

\* C5: getFistOrientation returns one of right, left, up, unknown: right iff
\* |dx| > |dy| and dx > 0; left iff |dx| > |dy| and dx < 0; otherwise up iff
\* dy < -0.05; otherwise unknown.  |dx| = |dy| never gives left or right and
\* a hand pointing down gives unknown.
C5_OrientationDecision ==
  Returned("getFistOrientation") =>
    LET o  == ret["getFistOrientation"]
        dx == ForwardX(Hand1)
        dy == ForwardY(Hand1)
    IN  /\ o \in {"right", "left", "up", "unknown"}
        /\ (o = "right") = (Wider(Hand1) /\ dx > 0)
        /\ (o = "left") = (Wider(Hand1) /\ dx < 0)
        /\ (o = "up") = (~Wider(Hand1) /\ dy < -1000)
        /\ (o = "unknown") = (~Wider(Hand1) /\ ~(dy < -1000))
        /\ (dx = dy \/ dx = -dy) => o \notin {"left", "right"}
        /\ (dy > 0 /\ ~Wider(Hand1)) => o = "unknown"

\* |dx| = |dy| with dy below -0.05: the tie goes to up, not to right
C5_Witness ==
  /\ Returned("getFistOrientation")
  /\ ForwardX(Hand1) = -ForwardY(Hand1) /\ ForwardX(Hand1) > 1000
  /\ ret["getFistOrientation"] = "up"

\* C6: handsClose(A, B) is true exactly when the wrists are strictly closer
\* than 0.25 in 2-D, and handsClose(A, B) = handsClose(B, A).
C6_HandsCloseStrictSymmetric ==
  Returned("handsClose") =>
    LET dx == Hand1[0].x - Hand2[0].x
        dy == Hand1[0].y - Hand2[0].y
    IN  /\ ret["handsClose"] = (dx * dx + dy * dy < 25000000)
        /\ ret["handsClose"] = handsClose(Hand2, Hand1)

\* wrists exactly 0.25 apart on a slant: not close
C6_Witness ==
  /\ Returned("handsClose") /\ ~ret["handsClose"]
  /\ Hand1[0].x - Hand2[0].x # 0 /\ Hand1[0].y - Hand2[0].y # 0
  /\ (Hand1[0].x - Hand2[0].x) * (Hand1[0].x - Hand2[0].x)
       + (Hand1[0].y - Hand2[0].y) * (Hand1[0].y - Hand2[0].y) = 25000000

HasZ(p) == "z" \in DOMAIN p

Depth0(p) == IF HasZ(p) THEN p.z ELSE 0

Gap3(a, b) ==
  (a.x - b.x) * (a.x - b.x) + (a.y - b.y) * (a.y - b.y)
    + (Depth0(a) - Depth0(b)) * (Depth0(a) - Depth0(b))

GrabLimit == IF args.grabThreshold = <<>> THEN 16000 ELSE args.grabThreshold[1]

\* C7: isHandNearCylinder is false when either position is absent; with both
\* present it is true exactly when the 3-D distance (a missing z read as 0)
\* is at most the threshold, 0.8 when none is given.
C7_NearIffWithinThreshold ==
  Returned("isHandNearCylinder") =>
    IF args.handPos3D = Null \/ args.cylinderPos3D = Null
    THEN ret["isHandNearCylinder"] = FALSE
    ELSE ret["isHandNearCylinder"] =
           (/\ GrabLimit >= 0
            /\ Gap3(args.handPos3D, args.cylinderPos3D) <= GrabLimit * GrabLimit)

\* both positions present, one without z, no threshold given, the distance
\* exactly 0.8: near
C7_Witness ==
  /\ Returned("isHandNearCylinder") /\ ret["isHandNearCylinder"]
  /\ args.handPos3D # Null /\ args.cylinderPos3D # Null
  /\ args.grabThreshold = <<>>
  /\ HasZ(args.handPos3D) /\ ~HasZ(args.cylinderPos3D)
  /\ Gap3(args.handPos3D, args.cylinderPos3D) = 256000000

\* one position absent, the other at distance 0 of anything: not near
C7_WitnessAbsent ==
  /\ Returned("isHandNearCylinder") /\ ~ret["isHandNearCylinder"]
  /\ args.handPos3D = Null /\ args.cylinderPos3D # Null

\* C8: the facing flag of a frame is true exactly when one orientation label
\* is left and the other right; swapping the two hands keeps it; it is false
\* when a label is up or unknown or the labels are equal.
C8_FacingIffLeftRight ==
  (debug # Null /\ "facing" \in DOMAIN debug) =>
    LET a == debug.handA_orient
        b == debug.handB_orient
    IN  /\ a = getFistOrientation(lastDetections[1])
        /\ b = getFistOrientation(lastDetections[2])
        /\ debug.facing = ({a, b} = {"left", "right"})
        /\ debug.facing = getFistBumpDebug(<<lastDetections[2], lastDetections[1]>>).facing
        /\ (a \in {"up", "unknown"} \/ b \in {"up", "unknown"} \/ a = b) => ~debug.facing

\* hand A points right and hand B left (the other order than the first
\* disjunct of the code): facing
C8_Witness ==
  /\ debug # Null /\ "facing" \in DOMAIN debug
  /\ debug.handA_orient = "right" /\ debug.handB_orient = "left"
  /\ debug.facing

Forward3(h) ==
  (h[9].x - h[0].x) * (h[9].x - h[0].x) + (h[9].y - h[0].y) * (h[9].y - h[0].y)
    + (Depth0(h[9]) - Depth0(h[0])) * (Depth0(h[9]) - Depth0(h[0]))

\* C9: when the wrist-to-landmark-9 vector (absent z read as 0) is shorter
\* than 0.001 in 3-D, getFistRotation returns exactly {x: 0, y: 0, z: 0},
\* whatever the thumb landmark is.
C9_FlatHandZeroRotation ==
  (Returned("getFistRotation") /\ Forward3(Hand1) < 400) =>
    ret["getFistRotation"] = [x |-> ZeroAngle, y |-> ZeroAngle, z |-> ZeroAngle]

\* a non-zero forward vector shorter than 0.001 with the thumb far from the
\* wrist: the zero rotation
C9_Witness ==
  /\ Returned("getFistRotation")
  /\ Forward3(Hand1) > 0 /\ Forward3(Hand1) < 400
  /\ Gap2(Hand1, 4, 0) > 400
  /\ ret["getFistRotation"] = [x |-> ZeroAngle, y |-> ZeroAngle, z |-> ZeroAngle]

\* distance of a depth from -2.5
FromBase(d) == IF d < -50000 THEN -50000 - d ELSE d + 50000

DepthOfSize(ns) == -50000 - (40 * (ns - 1000)) \div 3

ClampsTo(g, ns) ==
  /\ ns = 1000 => g < 1001 * 1001
  /\ ns = 4000 => g >= 4000 * 4000
  /\ (ns > 1000 /\ ns < 4000) => (ns * ns <= g /\ g < (ns + 1) * (ns + 1))

\* C11: estimateHandDepth returns -2.5 - (s - 0.05) * (2.0 / 0.15) for the
\* wrist-to-landmark-9 distance s clamped to [0.05, 0.20]; the result lies
\* in [-4.5, -2.5], every size at or below 0.05 gives one depth and every
\* size at or above 0.20 gives one depth.
C11_DepthFormulaClamped ==
  Returned("estimateHandDepth") =>
    \A i \in {1, 2} :
      LET d == ret["estimateHandDepth"][i]
          g == Gap2(args.hands[i], 0, 9)
      IN  /\ \E ns \in 1000..4000 : ClampsTo(g, ns) /\ d = DepthOfSize(ns)
          /\ d >= -90000 /\ d <= -50000
          /\ g <= 1000000 => d = -50000
          /\ g >= 16000000 => d = -90000

\* sizes 0.025 and 0.05 get the same depth -2.5
C11_Witness ==
  /\ Returned("estimateHandDepth")
  /\ Gap2(Hand1, 0, 9) = 250000 /\ Gap2(Hand2, 0, 9) = 1000000
  /\ ret["estimateHandDepth"] = <<-50000, -50000>>

\* sizes 0.20 and 0.25 get the same depth -4.5
C11_WitnessFar ==
  /\ Returned("estimateHandDepth")
  /\ Gap2(Hand1, 0, 9) = 16000000 /\ Gap2(Hand2, 0, 9) = 25000000
  /\ ret["estimateHandDepth"] = <<-90000, -90000>>

PointsLeft(h) == Wider(h) /\ ForwardX(h) < 0

PointsRight(h) == Wider(h) /\ ForwardX(h) > 0

WristGap2(a, b) ==
  (a[0].x - b[0].x) * (a[0].x - b[0].x) + (a[0].y - b[0].y) * (a[0].y - b[0].y)

BumpSeen(dets) ==
  /\ Len(dets) = 2
  /\ Cardinality(FoldedTips(dets[1])) >= 3
  /\ Cardinality(FoldedTips(dets[2])) >= 3
  /\ \/ PointsLeft(dets[1]) /\ PointsRight(dets[2])
     \/ PointsRight(dets[1]) /\ PointsLeft(dets[2])
  /\ WristGap2(dets[1], dets[2]) < 25000000

\* C13: in the fist-bump experiment a frame requests the confetti trigger
\* exactly when it holds two hands, both fists, facing each other and close;
\* a frame with any other number of hands requests nothing, and the
\* table-tennis experiment never requests it.
C13_TriggerIffBump ==
  debug # Null =>
    /\ confetti.requested =
         (currentExperimentId = "fist-bump" /\ BumpSeen(lastDetections))
    /\ Len(lastDetections) # 2 => ~confetti.requested
    /\ currentExperimentId = "table-tennis" => ~confetti.requested
    /\ confetti.fired => confetti.requested

\* a fist-bump frame with two close facing fists
C13_Witness ==
  /\ debug # Null /\ currentExperimentId = "fist-bump"
  /\ BumpSeen(lastDetections)
  /\ confetti.requested

\* the same two fists seen by the table-tennis experiment: nothing requested
C13_WitnessTennis ==
  /\ debug # Null /\ currentExperimentId = "table-tennis"
  /\ BumpSeen(lastDetections)
  /\ ~confetti.requested

\* the cylinder a frame starts from: initThreeScene's when the frame is the
\* first of the table-tennis experiment
Before(cyl) == IF cyl = Null /\ currentExperimentId = "table-tennis" THEN NewCylinder ELSE cyl

\* the debug entry of hand k ("handA", "handB") carries a rotation, i.e.
\* getFistRotation ran for it
RotationTaken(dbg, k) == k \in DOMAIN dbg /\ "rotation" \in DOMAIN dbg[k]

\* C14: getFistRotation runs on a hand only in a frame where that hand is a
\* fist, in the debug generator and in the 3-D handler alike, and the
\* cylinder's rotation is set only from such a call.
C14_RotationOnlyForFists ==
  [][debug' # Null =>
       /\ RotationTaken(debug', "handA") =>
            /\ Cardinality(FoldedTips(lastDetections'[1])) >= 3
            /\ debug'.handA.rotation = getFistRotation(lastDetections'[1])
       /\ RotationTaken(debug', "handB") =>
            /\ Cardinality(FoldedTips(lastDetections'[2])) >= 3
            /\ debug'.handB.rotation = getFistRotation(lastDetections'[2])
       /\ (cylinder' # Null /\ cylinder'.rotation # Before(cylinder).rotation) =>
            /\ Len(lastDetections') >= 1
            /\ Cardinality(FoldedTips(lastDetections'[1])) >= 3
            /\ cylinder'.rotation = getFistRotation(lastDetections'[1])]_vars

\* a table-tennis frame whose hand A is a fist and has turned the cylinder
C14_Witness ==
  /\ debug # Null /\ RotationTaken(debug, "handA")
  /\ cylinder # Null /\ cylinder.rotation # NewCylinder.rotation
  /\ cylinder.rotation = debug.handA.rotation
  /\ "handB" \in DOMAIN debug /\ ~RotationTaken(debug, "handB")

\* the index convention: after the wrist (0), each finger's four
\* consecutive landmarks are its MCP, PIP, DIP and TIP
JointOf(i) == <<"MCP", "PIP", "DIP", "TIP">>[((i - 1) % 4) + 1]

McpOf(tip) == CHOOSE i \in (tip - 3)..tip : JointOf(i) = "MCP"

TipsAtMcp(h) == {t \in {8, 12, 16, 20} : Gap2(h, t, McpOf(t)) < 1000000}

\* C15: under the index convention (non-thumb MCPs 5, 9, 13, 17) the
\* landmark isFist measures each fingertip against, index tip - 2, is that
\* finger's MCP joint: isFist counts the tips within 0.05 of their MCP.
C15_FistMeasuresTipToMcp ==
  /\ \A t \in {8, 12, 16, 20} : JointOf(t) = "TIP" /\ McpOf(t) \in {5, 9, 13, 17}
  /\ Returned("isFist") => ret["isFist"] = (Cardinality(TipsAtMcp(Hand1)) >= 3)

\* atan2(y, x) - pi/2 of the thumb vector (landmark 4 from the wrist)
RollOf(h) == MinusHalfPi(Atan2(h[4].y - h[0].y, h[4].x - h[0].x))

\* C16 as stated: for a non-degenerate forward vector, roll = 0 when the
\* planar length of thumbTip - wrist is strictly below 0.001, and at 0.001
\* or above (exactly 0.001 included) roll = atan2(y, x) - pi/2.
C16_RollFromThreshold ==
  (Returned("getFistRotation") /\ Forward3(Hand1) >= 400) =>
    /\ Gap2(Hand1, 4, 0) < 400 => ret["getFistRotation"].z = ZeroAngle
    /\ Gap2(Hand1, 4, 0) >= 400 => ret["getFistRotation"].z = RollOf(Hand1)

\* C16, amended: for a non-degenerate forward vector, roll = atan2(y, x) -
\* pi/2 when the planar length of thumbTip - wrist is strictly above 0.001,
\* and roll = 0 when it is 0.001 or below (exactly 0.001 included).
C16_RollAboveThreshold ==
  (Returned("getFistRotation") /\ Forward3(Hand1) >= 400) =>
    /\ Gap2(Hand1, 4, 0) <= 400 => ret["getFistRotation"].z = ZeroAngle
    /\ Gap2(Hand1, 4, 0) > 400 => ret["getFistRotation"].z = RollOf(Hand1)

\* a thumb vector of exactly 0.001 along x under a full-length forward
\* vector: roll 0, not -pi/2
C16_Witness ==
  /\ Returned("getFistRotation") /\ Forward3(Hand1) >= 400
  /\ Gap2(Hand1, 4, 0) = 400
  /\ RollOf(Hand1) # ZeroAngle
  /\ ret["getFistRotation"].z = ZeroAngle

\* a thumb vector just over 0.001: the roll is taken
C16_WitnessAbove ==
  /\ Returned("getFistRotation") /\ Forward3(Hand1) >= 400
  /\ Gap2(Hand1, 4, 0) = 441
  /\ ret["getFistRotation"].z = RollOf(Hand1)
  /\ ret["getFistRotation"].z # ZeroAngle

\* a step that runs a frame: the clock reading moves
FrameStep == now' # now

\* C17: any two triggerConfetti calls that fire are at least 1000 ms apart;
\* a call less than 1000 ms after the last fired one fires nothing and
\* leaves lastBumpTime as it was; lastBumpTime is the reading of the most
\* recent fired call, 0 before any, so a call less than 1000 ms after the
\* clock origin is held back too.
C17_ConfettiDebounced ==
  [][/\ (FrameStep /\ confetti'.requested) =>
          /\ confetti'.fired = (now' - lastBumpTime >= 1000)
          /\ confetti'.fired => lastBumpTime' = now'
          /\ ~confetti'.fired => lastBumpTime' = lastBumpTime
          /\ now' < 1000 => ~confetti'.fired
     /\ (FrameStep /\ confetti'.fired /\ lastBumpTime # 0) =>
          now' - lastBumpTime >= 1000
     /\ ~(FrameStep /\ confetti'.requested) => lastBumpTime' = lastBumpTime
     /\ lastBumpTime' = 0 \/ (lastBumpTime' >= 1000 /\ lastBumpTime' <= now')]_vars

\* a bump 500 ms after one that fired: requested, held back
C17_Witness ==
  /\ confetti.requested /\ ~confetti.fired
  /\ lastBumpTime > 0 /\ now - lastBumpTime = 500

\* a bump 500 ms after the clock origin: held back, lastBumpTime still 0
C17_WitnessOrigin ==
  /\ confetti.requested /\ ~confetti.fired
  /\ lastBumpTime = 0 /\ now = 500

\* a second bump exactly 1000 ms after the first: fires
C17_WitnessSecond ==
  /\ confetti.fired /\ lastBumpTime = now /\ now = 2000

\* hand A of a frame is there and folded
FistA(dets) == Len(dets) >= 1 /\ Cardinality(FoldedTips(dets[1])) >= 3

\* C18: in the table-tennis experiment with the scene initialised, after
\* every frame the cylinder is visible exactly when a hand is detected and
\* hand A is a fist; when visible its position is handTo3D of hand A for
\* that frame; when hidden its position and rotation are those it had
\* before the frame; the second hand never affects it.
C18_CylinderFollowsHandA ==
  [][(FrameStep /\ currentExperimentId' = "table-tennis" /\ isInitialized') =>
       /\ cylinder'.visible = FistA(lastDetections')
       /\ FistA(lastDetections') =>
            cylinder'.position =
              handTo3D(lastDetections'[1], canvas'.width, canvas'.height)
       /\ ~FistA(lastDetections') =>
            /\ cylinder'.position = Before(cylinder).position
            /\ cylinder'.rotation = Before(cylinder).rotation
       /\ Len(lastDetections') = 2 =>
            \A other \in AppHands :
              cylinder' = handleTableTennis3D(Before(cylinder),
                                              <<lastDetections'[1], other>>, canvas')]_vars

\* hand A open, hand B a fist, after a frame that moved the cylinder: it is
\* hidden where it was left
C18_Witness ==
  /\ debug # Null /\ currentExperimentId = "table-tennis" /\ isInitialized
  /\ Len(lastDetections) = 2
  /\ ~FistA(lastDetections) /\ Cardinality(FoldedTips(lastDetections[2])) >= 3
  /\ ~cylinder.visible
  /\ cylinder.position # NewCylinder.position

\* hand A a fist: the cylinder is shown at its 3-D position
C18_WitnessShown ==
  /\ debug # Null /\ currentExperimentId = "table-tennis" /\ isInitialized
  /\ FistA(lastDetections)
  /\ cylinder.visible
  /\ cylinder.position = handTo3D(lastDetections[1], canvas.width, canvas.height)

\* C19: no frame runs before start-up is finished: every renderLoop call
\* finds the hand landmarker loaded and the canvas sized by the loadeddata
\* listener; in the table-tennis experiment initThreeScene has run before the
\* first frame, sets the scene up at most once (a repeated call changes
\* nothing), and isInitialized never returns to false.
C19_FramesAfterStartup ==
  [][/\ FrameStep =>
          /\ handLandmarker = "ready" /\ handLandmarker' = "ready"
          /\ pc \in {"loadeddata", "running"} /\ pc' = "running"
          /\ canvas' # Null /\ canvas'.width > 0 /\ canvas'.height > 0
          /\ currentExperimentId' = "table-tennis" =>
               (isInitialized' /\ cylinder' # Null)
     /\ isInitialized => isInitialized'
     /\ (isInitialized' /\ ~isInitialized) =>
          (pc = "loadeddata" /\ currentExperimentId = "table-tennis")
     /\ isInitialized' =>
          initThreeScene(isInitialized', cylinder') =
            [isInitialized |-> TRUE, cylinder |-> cylinder']]_vars

\* table tennis running, the cylinder already moved by a fist: a second
\* initThreeScene would be told apart from the first
C19_Witness ==
  /\ pc = "running" /\ currentExperimentId = "table-tennis"
  /\ handLandmarker = "ready" /\ canvas # Null
  /\ isInitialized /\ cylinder # NewCylinder
  /\ debug # Null /\ now >= 1500

===========================================================================
